---- MODULE Spec2Model ----
(***************************************************************************)
(* A model of the thetadata client: the ThetaClient connection lifecycle   *)
(* and request/response loop (src/thetadata/client.py) and the header,     *)
(* tick-table and list decoders (src/thetadata/models.py).                 *)
(*                                                                         *)
(* Four specifications share the definitions:                              *)
(*   Spec         the constructed client: connect, the caller's block,     *)
(*                the data-retrieval operations and kill, against a        *)
(*                Terminal that answers each request line;                 *)
(*   SpecSession  the operations on one connection, from the state         *)
(*                connect yields in;                                       *)
(*   SpecParse    the decoders as pure functions of a header and a body    *)
(*                drawn from bounded sets;                                 *)
(*   SpecCtor     the constructor on bounded arguments.                    *)
(*                                                                         *)
(* client.py imports Header, TickBody and ListBody from a parsing module   *)
(* whose parse takes the request text first; the decoding itself is        *)
(* modelled from the definitions in models.py, and the request text plays  *)
(* no part in it.  The enumerations are those of models.py.                *)
(***************************************************************************)
EXTENDS Integers, Sequences, FiniteSets, TLC

VARIABLES
    ctor,       \* SpecCtor: the constructor's arguments and what it did
    timeout,    \* ThetaClient.timeout; NoTimeout is None
    _server,    \* ThetaClient._server: 0 is None, n > 0 the n-th socket created
    socks,      \* every socket created so far, by number
    conn,       \* the connect() invocation: its position, loop index, outcome
    inbuf,      \* bytes the Terminal has sent on the current socket, not yet read
    terminal,   \* the Terminal: the unterminated request line it holds, alive or killed
    lastOp,     \* the data-retrieval operation or kill that has just run, as it ran
    counts,     \* connects run and operations left to run (bounds the model)
    pin,        \* SpecParse: the header and body handed to the decoders
    pout        \* SpecParse: what the decoders answered

vars == <<ctor, timeout, _server, socks, conn, inbuf, terminal, lastOp, counts,
          pin, pout>>

clientVars == <<timeout, _server, socks, conn, inbuf, terminal, lastOp, counts>>

parseVars == <<pin, pout>>

-----------------------------------------------------------------------------
(* Bounds of the model. *)

\* Body words (4-byte fields) SpecParse draws for one body.
MaxWords == 4

\* Largest header.format_len SpecParse draws.
MaxFormatLen == 3

\* Largest code SpecEnum hands to from_code.
MaxCode == 310

\* Days before today SpecDate draws dates and day counts from.
MaxSpan == 6

\* Bytes SpecHeader appends to a 20-byte buffer before cutting it.
MaxExtra == 1

\* Longest text body SpecList draws.
MaxText == 5

\* connect() invocations in one run of Spec.
MaxConnects == 2

\* Data-retrieval operations and kills in one run of Spec.
MaxOps == 1

\* Data-retrieval operations and kills in one run of SpecSession.
MaxSessionOps == 2

\* Full parts of MAX_PART_SIZE bytes in the largest body SpecRecv asks for.
MaxParts == 3

-----------------------------------------------------------------------------
(* Sequence helpers with Python's meaning. *)

Min(a, b) == IF a < b THEN a ELSE b

Max(a, b) == IF a > b THEN a ELSE b

\* data[lo:hi] with Python's clamping of both ends (0-based, hi exclusive).
Slice(data, lo, hi) ==
    LET l == Min(lo, Len(data))
        h == Min(hi, Len(data))
    IN  IF h <= l THEN <<>> ELSE SubSeq(data, l + 1, h)

Zeros(n) == [k \in 1..n |-> 0]

RECURSIVE Flatten(_)
Flatten(ss) == IF ss = <<>> THEN <<>> ELSE Head(ss) \o Flatten(Tail(ss))

\* Largest integer the checker represents; Python's integers are unbounded.
IntMax == 1073741823 * 2 + 1

\* int.from_bytes(d, "big").  A value the checker cannot represent (2^31 or
\* more) is held at IntMax: every use of such a value in the model compares it
\* with lengths of at most a few hundred bytes.
RECURSIVE parse_int(_)
parse_int(d) ==
    IF d = <<>> THEN 0
    ELSE LET hi == parse_int(SubSeq(d, 1, Len(d) - 1))
         IN  IF hi >= 8388608 THEN IntMax ELSE hi * 256 + d[Len(d)]

-----------------------------------------------------------------------------
(* The enumerations of models.py: each member's name and value, in          *)
(* declaration order.                                                       *)

DataTypeMembers == <<
    <<"DATE", 0>>, <<"MS_OF_DAY", 1>>, <<"CORRECTION", 2>>,
    <<"PRICE_TYPE", 4>>, <<"BID_SIZE", 101>>, <<"BID_EXCHANGE", 102>>,
    <<"BID", 103>>, <<"BID_CONDITION", 104>>, <<"ASK_SIZE", 105>>,
    <<"ASK_EXCHANGE", 106>>, <<"ASK", 107>>, <<"ASK_CONDITION", 108>>,
    <<"MIDPOINT", 111>>, <<"VWAP", 112>>, <<"QWAP", 113>>, <<"WAP", 114>>,
    <<"OPEN_INTEREST", 121>>, <<"PRICE", 131>>, <<"SIZE", 132>>,
    <<"CONDITION", 133>>, <<"VOLUME", 141>>, <<"COUNT", 142>>,
    <<"THETA", 151>>, <<"VEGA", 152>>, <<"DELTA", 153>>, <<"RHO", 154>>,
    <<"EPSILON", 155>>, <<"LAMBDA", 156>>, <<"GAMMA", 161>>,
    <<"VANNA", 162>>, <<"CHARM", 163>>, <<"VOMMA", 164>>, <<"VETA", 165>>,
    <<"VERA", 166>>, <<"SOPDK", 167>>, <<"SPEED", 171>>, <<"ZOMMA", 172>>,
    <<"COLOR", 173>>, <<"ULTIMA", 174>>, <<"D1", 181>>, <<"D2", 182>>,
    <<"DUAL_DELTA", 183>>, <<"DUAL_GAMMA", 184>>, <<"RATE", 191>>,
    <<"OPEN", 192>>, <<"HIGH", 193>>, <<"LOW", 194>>, <<"CLOSE", 195>>,
    <<"IMPLIED_VOL", 201>>, <<"RATIO", 211>>, <<"RATING", 212>>,
    <<"LIST", 213>> >>

MessageTypeMembers == <<
    <<"CREDENTIALS", 0>>, <<"SESSION_TOKEN", 1>>, <<"INFO", 2>>,
    <<"METADATA", 3>>, <<"CONNECTED", 4>>, <<"PING", 100>>, <<"ERROR", 101>>,
    <<"DISCONNECTED", 102>>, <<"RECONNECTED", 103>>, <<"REQ_SYMS", 104>>,
    <<"SET_SYMS", 105>>, <<"CANT_CHANGE_SYMS", 106>>,
    <<"CHANGED_SYMS", 107>>, <<"HIST", 200>>, <<"ALL_EXPIRATIONS", 201>>,
    <<"ALL_STRIKES", 202>>, <<"HIST_END", 203>>, <<"LAST_QUOTE", 204>>,
    <<"ALL_ROOTS", 205>>, <<"LIST_END", 206>>,
    <<"REQUEST_SERVER_LIST", 300>>, <<"REQUEST_OPTIMAL_SERVER", 301>>,
    <<"OPTIMAL_SERVER", 302>>, <<"PACKET", 303>>, <<"BAN_IP", 304>>,
    <<"POPULATION", 305>> >>

\* from_code with the raise inside the loop: only the first member is tried.
ScanMembers_first_only(cls, members, code, k) ==
    IF code = members[1][2]
        THEN [ok |-> TRUE, member |-> members[1][1]]
    ELSE [ok |-> FALSE, exc |-> "EnumParseError", code |-> code, enum |-> cls]

\* The scan of from_code: the first member from position k on whose value is
\* the code, or the EnumParseError carrying the code and the enumeration.
RECURSIVE ScanMembers(_, _, _, _)
ScanMembers(cls, members, code, k) ==
    IF k > Len(members)
        THEN [ok |-> FALSE, exc |-> "EnumParseError", code |-> code, enum |-> cls]
    ELSE IF code = members[k][2]
        THEN [ok |-> TRUE, member |-> members[k][1]]
    ELSE ScanMembers(cls, members, code, k + 1)

DataType_from_code(code) == ScanMembers("DataType", DataTypeMembers, code, 1)

MessageType_from_code(code) ==
    ScanMembers("MessageType", MessageTypeMembers, code, 1)

\* DataType.is_price
is_price(member) == member = "BID"


-----------------------------------------------------------------------------
(* Header.parse (models.py).  A decoder answers a record whose kind is the  *)
(* class of the value returned or the exception raised.                     *)

\* Header.parse with format_len read from the reserved byte 14.
Header_parse_reserved_byte(data) ==
    IF Len(data) # 20 THEN [kind |-> "AssertionError"]
    ELSE LET msgtype == MessageType_from_code(parse_int(Slice(data, 0, 2)))
         IN  IF ~msgtype.ok
                 THEN [kind |-> "EnumParseError", code |-> msgtype.code,
                       enum |-> msgtype.enum]
             ELSE [kind         |-> "Header",
                   message_type |-> msgtype.member,
                   id           |-> parse_int(Slice(data, 2, 10)),
                   latency      |-> parse_int(Slice(data, 10, 12)),
                   error        |-> parse_int(Slice(data, 12, 14)),
                   format_len   |-> data[15],
                   size         |-> parse_int(Slice(data, 16, 20))]

\* Header.parse (lines 243-280)
Header_parse(data) ==
    IF Len(data) # 20 THEN [kind |-> "AssertionError"]
    ELSE LET msgtype == MessageType_from_code(parse_int(Slice(data, 0, 2)))
         IN  IF ~msgtype.ok
                 THEN [kind |-> "EnumParseError", code |-> msgtype.code,
                       enum |-> msgtype.enum]
             ELSE [kind         |-> "Header",
                   message_type |-> msgtype.member,
                   id           |-> parse_int(Slice(data, 2, 10)),
                   latency      |-> parse_int(Slice(data, 10, 12)),
                   error        |-> parse_int(Slice(data, 12, 14)),
                   format_len   |-> data[16],
                   size         |-> parse_int(Slice(data, 16, 20))]

\* bytes.decode("ascii"): the text, one code point per byte, or the
\* UnicodeDecodeError of a byte outside 0..127.
decode_ascii(data) ==
    IF \E k \in 1..Len(data) : data[k] > 127
        THEN [ok |-> FALSE, exc |-> "UnicodeDecodeError"]
    ELSE [ok |-> TRUE, text |-> data]

\* _check_body_errors: kind "none" when it returns.
_check_body_errors(header, body_data) ==
    IF header.message_type = "ERROR"
        THEN LET msg == decode_ascii(body_data)
             IN  IF msg.ok THEN [kind |-> "ResponseError", msg |-> msg.text]
                 ELSE [kind |-> msg.exc]
    ELSE [kind |-> "none"]

\* _pt_to_price_mul: entries 0 and 10 are the integers 0 and 1, the others
\* floats, held as the fraction num/den.
_pt_to_price_mul == <<
    [int |-> TRUE,  num |-> 0,          den |-> 1],
    [int |-> FALSE, num |-> 1,          den |-> 1000000000],
    [int |-> FALSE, num |-> 1,          den |-> 100000000],
    [int |-> FALSE, num |-> 1,          den |-> 10000000],
    [int |-> FALSE, num |-> 1,          den |-> 1000000],
    [int |-> FALSE, num |-> 1,          den |-> 100000],
    [int |-> FALSE, num |-> 1,          den |-> 10000],
    [int |-> FALSE, num |-> 1,          den |-> 1000],
    [int |-> FALSE, num |-> 1,          den |-> 100],
    [int |-> FALSE, num |-> 1,          den |-> 10],
    [int |-> TRUE,  num |-> 1,          den |-> 1],
    [int |-> FALSE, num |-> 10,         den |-> 1],
    [int |-> FALSE, num |-> 100,        den |-> 1],
    [int |-> FALSE, num |-> 1000,       den |-> 1],
    [int |-> FALSE, num |-> 10000,      den |-> 1],
    [int |-> FALSE, num |-> 100000,     den |-> 1],
    [int |-> FALSE, num |-> 1000000,    den |-> 1],
    [int |-> FALSE, num |-> 10000000,   den |-> 1],
    [int |-> FALSE, num |-> 100000000,  den |-> 1],
    [int |-> FALSE, num |-> 1000000000, den |-> 1] >>

\* tick[i] * price_multiplier: an integer times the integer 0 or 1 is an
\* integer; times a float it is the float base * num / den, kept as written.
ScalePrice(v, mul) ==
    IF mul.int THEN v * mul.num
    ELSE [float |-> TRUE, base |-> v, num |-> mul.num, den |-> mul.den]

\* The fl integers of row tn of the body (models.py lines 351-353, 370-376).
TickInts(data, fl, tn) ==
    [b \in 1..fl |-> parse_int(Slice(data, tn * fl * 4 + (b - 1) * 4,
                                           tn * fl * 4 + (b - 1) * 4 + 4))]

\* list(map(DataType.from_code, codes)): the members, or the first
\* EnumParseError in order.
RECURSIVE FormatOf(_, _, _)
FormatOf(codes, k, acc) ==
    IF k > Len(codes) THEN [kind |-> "format", format |-> acc]
    ELSE LET m == DataType_from_code(codes[k])
         IN  IF m.ok THEN FormatOf(codes, k + 1, Append(acc, m.member))
             ELSE [kind |-> "EnumParseError", code |-> m.code, enum |-> m.enum]

\* price_type_idx after lines 362-363: unbound when the format has no
\* PRICE_TYPE column, the column's 0-based position when it has one, and the
\* slice or mask pandas answers (no integer) when it has several.
PriceTypeIdx(format) ==
    LET at == {p \in 1..Len(format) : format[p] = "PRICE_TYPE"}
    IN  IF at = {} THEN [state |-> "unbound"]
        ELSE IF Cardinality(at) = 1
            THEN [state |-> "int", idx |-> (CHOOSE p \in at : TRUE) - 1]
        ELSE [state |-> "multi"]

\* del tick[price_type_idx] left out.
RemoveAt_nothing(s, p) == s

\* del s[p - 1]
RemoveAt(s, p) == SubSeq(s, 1, p - 1) \o SubSeq(s, p + 1, Len(s))

\* One pass of the tick loop's body after the row is read (lines 378-390).
TickRow(tick, format, pti) ==
    IF pti.state = "unbound" THEN [kind |-> "UnboundLocalError"]
    ELSE IF pti.state = "multi" THEN [kind |-> "TypeError"]
    ELSE LET pt == tick[pti.idx + 1]
         IN  IF pt >= Len(_pt_to_price_mul) THEN [kind |-> "IndexError"]
             ELSE LET price_multiplier == _pt_to_price_mul[pt + 1]
                      scaled == [i \in 1..Len(tick) |->
                                    IF is_price(format[i])
                                        THEN ScalePrice(tick[i], price_multiplier)
                                    ELSE tick[i]]
                  IN  [kind |-> "row", row |-> RemoveAt(scaled, pti.idx + 1)]

\* The tick loop (lines 366-390): rows tn .. n_ticks - 1.
RECURSIVE TickLoop(_, _, _, _, _, _)
TickLoop(data, format, pti, tn, n_ticks, ticks) ==
    IF tn >= n_ticks THEN [kind |-> "ticks", ticks |-> ticks]
    ELSE LET r == TickRow(TickInts(data, Len(format), tn), format, pti)
         IN  IF r.kind # "row" THEN r
             ELSE TickLoop(data, format, pti, tn + 1, n_ticks,
                           Append(ticks, r.row))

\* Lines 341-402 of TickBody.parse, after the length and error checks.
TickTable(header, data) ==
    IF header.format_len = 0 THEN [kind |-> "ZeroDivisionError"]
    ELSE
    LET n_ticks == header.size \div (header.format_len * 4)
        bytes_per_tick == header.format_len
        fmt == FormatOf(TickInts(data, bytes_per_tick, 0), 1, <<>>)
    IN  IF fmt.kind # "format" THEN fmt
        ELSE
        LET pti == PriceTypeIdx(fmt.format)
            loop == TickLoop(data, fmt.format, pti, 1, n_ticks, <<>>)
        IN  IF loop.kind # "ticks" THEN loop
            ELSE IF pti.state = "unbound" THEN [kind |-> "UnboundLocalError"]
            ELSE [kind    |-> "TickBody",
                  columns |-> SelectSeq(fmt.format,
                                        LAMBDA c : c # "PRICE_TYPE"),
                  rows    |-> loop.ticks]

\* TickBody.parse (lines 336-402)
TickBody_parse(header, data) ==
    IF Len(data) # header.size THEN [kind |-> "AssertionError"]
    ELSE LET e == _check_body_errors(header, data)
         IN  IF e.kind # "none" THEN e ELSE TickTable(header, data)

\* str.split(","): the tokens between the commas (code point 44).
RECURSIVE Split(_, _, _)

\* A split that loses the token after the last comma.
Split_lose_last(text, cur, acc) ==
    IF text = <<>> THEN acc
    ELSE IF Head(text) = 44 THEN Split(Tail(text), <<>>, Append(acc, cur))
    ELSE Split(Tail(text), Append(cur, Head(text)), acc)

Split(text, cur, acc) ==
    IF text = <<>> THEN Append(acc, cur)
    ELSE IF Head(text) = 44 THEN Split(Tail(text), <<>>, Append(acc, cur))
    ELSE Split(Tail(text), Append(cur, Head(text)), acc)

ListBody_parse(header, data) ==
    IF Len(data) # header.size THEN [kind |-> "AssertionError"]
    ELSE LET e == _check_body_errors(header, data)
         IN  IF e.kind # "none" THEN e
             ELSE LET t == decode_ascii(data)
                  IN  IF ~t.ok THEN [kind |-> t.exc]
                      ELSE [kind |-> "ListBody", lst |-> Split(t.text, <<>>, <<>>)]

-----------------------------------------------------------------------------
(* SpecParse: the body decoders applied to bounded headers and bodies.      *)

\* Field values a body word takes: the DataType codes DATE, PRICE_TYPE and
\* BID, and 10, 13 and 260, which are no DataType's value (10 and 13 are also
\* the price types of the multipliers 1 and 1000.0; 260 has the low byte of
\* PRICE_TYPE and is past the end of _pt_to_price_mul).
WordVals == {0, 4, 10, 13, 103, 260}

\* A field as the Terminal writes it: 4 bytes, big-endian.
Word(v) == <<0, 0, v \div 256, v % 256>>

\* Bytes after the last whole word: none, one ASCII byte (a comma), or a byte
\* outside ASCII followed by one inside.
Tails == {<<>>, <<44>>, <<200, 65>>}

\* What a body begins with, before the words drawn freely: nothing; the
\* format rows [BID, PRICE_TYPE], [DATE, BID, PRICE_TYPE] and
\* [PRICE_TYPE, ASK, BID].
Heads == {
    <<>>,
    Word(103) \o Word(4),
    Word(0) \o Word(103) \o Word(4),
    Word(4) \o Word(107) \o Word(103) }

ParseMessageTypes == {"HIST", "ERROR"}

\* None, as a timeout.
NoTimeout == 0 - 1

\* The record of the last operation when none has run.
NoOp ==
    [op |-> "none", precond |-> TRUE, server |-> "None", sendCalls |-> 0,
     sent |-> <<>>, unreadAtSend |-> 0, response |-> <<>>, recvs |-> <<>>,
     decoded |-> "none", header_data |-> <<>>, header |-> [kind |-> "none"],
     body_data |-> <<>>, result |-> [kind |-> "none"]]

\* No client in use: the state the client's variables keep under SpecParse
\* and SpecCtor.
NoClient ==
    /\ timeout = NoTimeout
    /\ _server = 0
    /\ socks = <<>>
    /\ conn = [pc |-> "idle", i |-> 0, attempts |-> 0, refused |-> 0,
               result |-> "none", exit |-> "none"]
    /\ inbuf = <<>>
    /\ terminal = [line |-> <<>>, alive |-> TRUE]
    /\ lastOp = NoOp
    /\ counts = [connects |-> 0, opsLeft |-> 0]

InitParse ==
    /\ NoClient
    /\ ctor = [state |-> "none"]
    /\ \E h \in Heads :
       \E n \in 0..MaxWords :
       \E ws \in [1..n -> WordVals] :
       \E t \in Tails :
       \E mt \in ParseMessageTypes :
       \E fl \in 0..MaxFormatLen :
       \E extra \in 0..1 :
          LET data == h \o Flatten([k \in 1..n |-> Word(ws[k])]) \o t
          IN  pin = [header |-> [kind |-> "Header", message_type |-> mt,
                                 id |-> 0, latency |-> 0, error |-> 0,
                                 format_len |-> fl,
                                 size |-> Len(data) + extra],
                     data |-> data]
    /\ pout = [which |-> "none"]

\* TickBody.parse(header, data)
ParseTickBody ==
    /\ pout.which = "none"
    /\ pout' = [which |-> "TickBody",
                result |-> TickBody_parse(pin.header, pin.data)]
    /\ UNCHANGED <<pin, ctor, clientVars>>

\* ListBody.parse(header, data)
ParseListBody ==
    /\ pout.which = "none"
    /\ pout' = [which |-> "ListBody",
                result |-> ListBody_parse(pin.header, pin.data)]
    /\ UNCHANGED <<pin, ctor, clientVars>>

NextParse == ParseTickBody \/ ParseListBody

SpecParse == InitParse /\ [][NextParse]_vars

-----------------------------------------------------------------------------
(* Properties of the decoders, checked under SpecParse.                     *)

Parsed == pout.which # "none"

IsAscii(data) == \A k \in 1..Len(data) : data[k] <= 127

ErrorBody ==
    /\ pin.header.message_type = "ERROR"
    /\ Len(pin.data) = pin.header.size

\* C6: for every ERROR header, whatever its format_len, and every
\* body of header.size bytes, TickBody.parse and ListBody.parse raise a
\* ResponseError carrying the body's text and return nothing.
C6_ErrorBodyRaisesResponseError ==
    (Parsed /\ ErrorBody)
        => (pout.result.kind = "ResponseError" /\ pout.result.msg = pin.data)

TickParsed == pout.which = "TickBody" /\ pin.header.message_type # "ERROR"

\* header.size is n_ticks * format_len * 4 for a whole number of rows.
WholeRows ==
    /\ pin.header.format_len > 0
    /\ pin.header.size % (pin.header.format_len * 4) = 0

\* C9: TickBody.parse fails for every non-ERROR header and body where
\* len(data) # header.size or header.size is no exact multiple of
\* format_len * 4 (format_len = 0 included), and returns no table.  Any
\* exception raised is taken for the malformed-input error.
C9_MalformedTickBodyRejected ==
    (TickParsed /\ (Len(pin.data) # pin.header.size \/ ~WholeRows))
        => pout.result.kind # "TickBody"

\* The format row of a body: its first format_len words.
FormatCodes == TickInts(pin.data, pin.header.format_len, 0)

\* A well-formed tick body whose format row holds known DataType codes only,
\* none of them PRICE_TYPE.
PlainTickBody ==
    /\ TickParsed
    /\ Len(pin.data) = pin.header.size
    /\ WholeRows
    /\ pin.header.size >= pin.header.format_len * 4
    /\ \A k \in 1..pin.header.format_len :
          /\ DataType_from_code(FormatCodes[k]).ok
          /\ FormatCodes[k] # 4

\* C10: for every well-formed tick body without a PRICE_TYPE column and any
\* number of data rows, TickBody.parse returns the table whose columns are
\* the format row's fields in order and whose rows are the data rows' raw
\* integers in received order.
C10_PlainTickBodyPassesThrough ==
    PlainTickBody
        => /\ pout.result.kind = "TickBody"
           /\ pout.result.columns =
                  [k \in 1..pin.header.format_len |->
                      DataType_from_code(FormatCodes[k]).member]
           /\ pout.result.rows =
                  [tn \in 1..(pin.header.size
                                \div (pin.header.format_len * 4) - 1) |->
                      TickInts(pin.data, pin.header.format_len, tn)]

\* The positions of PRICE_TYPE in the format row.
PriceTypeAt == {k \in 1..pin.header.format_len : FormatCodes[k] = 4}

\* The number of data rows of a body of whole rows.
DataRows == pin.header.size \div (pin.header.format_len * 4) - 1

\* A well-formed tick body whose format row holds known DataType codes only,
\* PRICE_TYPE exactly once, and whose data rows each hold a price type in
\* 0..19.
PricedTickBody ==
    /\ TickParsed
    /\ Len(pin.data) = pin.header.size
    /\ WholeRows
    /\ pin.header.size >= pin.header.format_len * 4
    /\ \A k \in 1..pin.header.format_len : DataType_from_code(FormatCodes[k]).ok
    /\ Cardinality(PriceTypeAt) = 1
    /\ \A tn \in 1..DataRows, k \in PriceTypeAt :
          TickInts(pin.data, pin.header.format_len, tn)[k] \in 0..19

RECURSIVE TenTo(_)
TenTo(n) == IF n = 0 THEN 1 ELSE 10 * TenTo(n - 1)

\* raw times multiplier[pt] for pt in 0..19: multiplier[0] is 0,
\* multiplier[10] is 1, and every other multiplier[pt] the float 10^(pt - 10).
TimesMultiplier(raw, pt) ==
    IF pt = 0 THEN 0
    ELSE IF pt = 10 THEN raw
    ELSE [float |-> TRUE, base |-> raw,
          num |-> IF pt > 10 THEN TenTo(pt - 10) ELSE 1,
          den |-> IF pt < 10 THEN TenTo(10 - pt) ELSE 1]

C11_WitnessTwoRows ==
    /\ PricedTickBody
    /\ FormatCodes = <<103, 4>>
    /\ DataRows = 2
    /\ TickInts(pin.data, 2, 1)[2] # TickInts(pin.data, 2, 2)[2]
    /\ pout.result.kind = "TickBody"

-----------------------------------------------------------------------------
(* SpecEnum: DataType.from_code and MessageType.from_code applied to the    *)
(* codes -1 .. MaxCode.                                                      *)

InitEnum ==
    /\ NoClient
    /\ ctor = [state |-> "none"]
    /\ \E cls \in {"DataType", "MessageType"}, code \in (0 - 1)..MaxCode :
          pin = [cls |-> cls, code |-> code]
    /\ pout = [which |-> "none"]

\* cls.from_code(code)
FromCode ==
    /\ pout.which = "none"
    /\ pout' = [which |-> "from_code",
                result |-> IF pin.cls = "DataType"
                               THEN DataType_from_code(pin.code)
                           ELSE MessageType_from_code(pin.code)]
    /\ UNCHANGED <<pin, ctor, clientVars>>

NextEnum == FromCode

SpecEnum == InitEnum /\ [][NextEnum]_vars

\* The members of the enumeration from_code was called on.
MembersOfClass ==
    IF pin.cls = "DataType" THEN DataTypeMembers ELSE MessageTypeMembers

\* The positions of the members whose value is the code.
MembersWithCode ==
    {k \in 1..Len(MembersOfClass) : MembersOfClass[k][2] = pin.code}

\* C12: for DataType and MessageType, from_code of a code that is a member's
\* value returns that member, the only one of that value (so
\* from_code(m.value) = m and from_code(c).value = c); from_code of any other
\* code raises EnumParseError carrying that code and the enumeration.
C12_FromCodeRoundTrip ==
    pout.which = "from_code" =>
        IF MembersWithCode # {}
            THEN /\ pout.result.ok
                 /\ \A k \in MembersWithCode :
                       pout.result.member = MembersOfClass[k][1]
        ELSE /\ ~pout.result.ok
             /\ pout.result.exc = "EnumParseError"
             /\ pout.result.code = pin.code
             /\ pout.result.enum = pin.cls

\* from_code of the value of the last member declared, and of a code no
\* member has.
C12_Witness ==
    /\ pout.which = "from_code"
    /\ pin.cls = "MessageType"
    /\ pin.code = 305
    /\ pout.result.ok
    /\ pout.result.member = "POPULATION"

C12_WitnessUnknown ==
    /\ pout.which = "from_code"
    /\ pin.cls = "DataType"
    /\ pin.code = 3
    /\ ~pout.result.ok

-----------------------------------------------------------------------------
(* SpecDate: the constructors of DateRange (models.py lines 208-229).  A    *)
(* date is its proleptic Gregorian ordinal: date.min, 0001-01-01, is day 1. *)

\* date.min.toordinal() and timedelta.max.days, the limits of the types
\* imported at line 3.
DATE_MIN == 1

TIMEDELTA_MAX_DAYS == 999999999

\* datetime.now().date() on 2026-11-04.
Today == 739924

\* DateRange.__init__ with the assertion start < end.
DateRange_init_strict(start, end) ==
    IF start < end THEN [kind |-> "DateRange", start |-> start, end |-> end]
    ELSE [kind |-> "AssertionError"]

\* DateRange.__init__ (lines 215-220)
DateRange_init(start, end) ==
    IF start <= end THEN [kind |-> "DateRange", start |-> start, end |-> end]
    ELSE [kind |-> "AssertionError"]

\* DateRange.from_days (lines 222-229); n is [type, value], the value
\* present when the type is int.
from_days(n, today) ==
    IF n.type # "int" THEN [kind |-> "AssertionError"]
    ELSE IF ~(n.value >= 0) THEN [kind |-> "AssertionError"]
    ELSE IF n.value > TIMEDELTA_MAX_DAYS THEN [kind |-> "OverflowError"]
    ELSE IF today - n.value < DATE_MIN THEN [kind |-> "OverflowError"]
    ELSE DateRange_init(today - n.value, today)

\* The day counts handed to from_days: small ones around 0, the counts that
\* reach date.min and pass it, the largest timedelta and one more, and a
\* value that is no int.
DayCounts ==
    [type : {"int"},
     value : ((0 - 2)..MaxSpan)
                 \cup {Today - DATE_MIN, Today - DATE_MIN + 1,
                       TIMEDELTA_MAX_DAYS, TIMEDELTA_MAX_DAYS + 1}]
        \cup {[type |-> "float"]}

InitDate ==
    /\ NoClient
    /\ ctor = [state |-> "none"]
    /\ \/ \E start \in (Today - MaxSpan)..Today,
             end \in (Today - MaxSpan)..Today :
             pin = [call |-> "DateRange", start |-> start, end |-> end]
       \/ \E n \in DayCounts :
             pin = [call |-> "from_days", n |-> n, today |-> Today]
    /\ pout = [which |-> "none"]

\* DateRange(start, end)
NewDateRange ==
    /\ pout.which = "none"
    /\ pin.call = "DateRange"
    /\ pout' = [which |-> "DateRange",
                result |-> DateRange_init(pin.start, pin.end)]
    /\ UNCHANGED <<pin, ctor, clientVars>>

\* DateRange.from_days(n)
FromDays ==
    /\ pout.which = "none"
    /\ pin.call = "from_days"
    /\ pout' = [which |-> "from_days", result |-> from_days(pin.n, pin.today)]
    /\ UNCHANGED <<pin, ctor, clientVars>>

NextDate == NewDateRange \/ FromDays

SpecDate == InitDate /\ [][NextDate]_vars

NonnegativeInt(n) == n.type = "int" /\ n.value >= 0

\* C13: DateRange(start, end) succeeds iff start <= end; from_days(n)
\* succeeds iff n is a nonnegative integer, with end = today and
\* end - start = n days; every DateRange returned has start <= end.
C13_DateRangeIffOrdered ==
    /\ pout.which = "DateRange" =>
           (pout.result.kind = "DateRange" <=> pin.start <= pin.end)
    /\ pout.which = "from_days" =>
           /\ pout.result.kind = "DateRange" <=> NonnegativeInt(pin.n)
           /\ pout.result.kind = "DateRange" =>
                  /\ pout.result.end = pin.today
                  /\ pout.result.end - pout.result.start = pin.n.value
    /\ (pout.which # "none" /\ pout.result.kind = "DateRange") =>
           pout.result.start <= pout.result.end

\* C13 amended: from_days(n) succeeds iff n is an integer with
\* 0 <= n <= today - date.min in days; a larger n raises OverflowError.  The
\* rest is as claimed.
C13_DateRangeWithinDateMin ==
    /\ pout.which = "DateRange" =>
           /\ pout.result.kind = "DateRange" <=> pin.start <= pin.end
           /\ pout.result.kind = "DateRange" =>
                  (pout.result.start = pin.start /\ pout.result.end = pin.end)
    /\ pout.which = "from_days" =>
           /\ pout.result.kind = "DateRange" <=>
                  (NonnegativeInt(pin.n) /\ pin.n.value <= pin.today - 1)
           /\ (NonnegativeInt(pin.n) /\ pin.n.value > pin.today - 1) =>
                  pout.result.kind = "OverflowError"
           /\ pout.result.kind = "DateRange" =>
                  /\ pout.result.end = pin.today
                  /\ pout.result.end - pout.result.start = pin.n.value
    /\ (pout.which # "none" /\ pout.result.kind = "DateRange") =>
           pout.result.start <= pout.result.end

\* from_days(0): start = end = today.
C13_Witness ==
    /\ pout.which = "from_days"
    /\ pin.n = [type |-> "int", value |-> 0]
    /\ pout.result.kind = "DateRange"
    /\ pout.result.start = pin.today
    /\ pout.result.end = pin.today

-----------------------------------------------------------------------------
(* SpecHeader: Header.parse applied to buffers of 0 to 20 + MaxExtra bytes. *)
(* The fields drawn stay below 2^31, the largest the checker holds.         *)

\* The bytes a field of the header takes: the message type (CREDENTIALS,
\* ERROR, HIST, POPULATION and the undefined 5 and 999), the id, latency and
\* error, the reserved byte, format_len and size.
HeaderFields == <<
    {<<0, 0>>, <<0, 101>>, <<0, 200>>, <<1, 49>>, <<0, 5>>, <<3, 231>>},
    {<<0, 0, 0, 0, 0, 0, 0, 0>>, <<0, 0, 0, 0, 0, 0, 1, 2>>,
     <<0, 0, 0, 0, 127, 255, 255, 255>>},
    {<<0, 0>>, <<1, 2>>, <<255, 255>>},
    {<<0, 0>>, <<2, 1>>, <<255, 255>>},
    {<<0>>, <<7>>},
    {<<0>>, <<2>>, <<255>>},
    {<<0, 0, 0, 0>>, <<0, 0, 1, 4>>, <<127, 255, 255, 255>>} >>

InitHeader ==
    /\ NoClient
    /\ ctor = [state |-> "none"]
    /\ \E f1 \in HeaderFields[1], f2 \in HeaderFields[2],
          f3 \in HeaderFields[3], f4 \in HeaderFields[4],
          f5 \in HeaderFields[5], f6 \in HeaderFields[6],
          f7 \in HeaderFields[7], len \in 0..(20 + MaxExtra) :
          pin = [data |-> Slice(f1 \o f2 \o f3 \o f4 \o f5 \o f6 \o f7
                                    \o Zeros(MaxExtra), 0, len)]
    /\ pout = [which |-> "none"]

\* Header.parse(data)
ParseHeader ==
    /\ pout.which = "none"
    /\ pout' = [which |-> "Header", result |-> Header_parse(pin.data)]
    /\ UNCHANGED <<pin, ctor, clientVars>>

NextHeader == ParseHeader

SpecHeader == InitHeader /\ [][NextHeader]_vars

\* v as w bytes, big-endian.
RECURSIVE ToBytes(_, _)
ToBytes(v, w) ==
    IF w = 0 THEN <<>> ELSE Append(ToBytes(v \div 256, w - 1), v % 256)

\* The value of the MessageType member of a name.
MessageTypeValue(name) ==
    LET k == CHOOSE j \in 1..Len(MessageTypeMembers) :
                 MessageTypeMembers[j][1] = name
    IN  MessageTypeMembers[k][2]

\* C14: for every 20-byte buffer whose first two bytes are a defined
\* MessageType code, Header.parse returns the fields read big-endian from
\* bytes 0-1, 2-9, 10-11, 12-13, 15 and 16-19, so that encoding them again
\* gives back every byte but byte 14; for every buffer of another length it
\* raises the malformed-input error (AssertionError).
C14_HeaderFieldsRoundTrip ==
    pout.which = "Header" =>
        IF Len(pin.data) # 20 THEN pout.result.kind = "AssertionError"
        ELSE MessageType_from_code(pin.data[1] * 256 + pin.data[2]).ok =>
                 /\ pout.result.kind = "Header"
                 /\ ToBytes(MessageTypeValue(pout.result.message_type), 2)
                        \o ToBytes(pout.result.id, 8)
                        \o ToBytes(pout.result.latency, 2)
                        \o ToBytes(pout.result.error, 2)
                        = SubSeq(pin.data, 1, 14)
                 /\ <<pout.result.format_len>> = SubSeq(pin.data, 16, 16)
                 /\ ToBytes(pout.result.size, 4) = SubSeq(pin.data, 17, 20)

\* A 20-byte buffer with no field zero and the reserved byte unlike
\* format_len, decoded.
C14_Witness ==
    /\ pout.which = "Header"
    /\ pin.data = <<1, 49>> \o <<0, 0, 0, 0, 127, 255, 255, 255>> \o <<1, 2>>
                      \o <<2, 1>> \o <<7>> \o <<2>> \o <<0, 0, 1, 4>>
    /\ pout.result.kind = "Header"
    /\ pout.result.message_type = "POPULATION"
    /\ pout.result.format_len = 2
    /\ pout.result.size = 260

\* A buffer of 19 bytes, refused.
C14_WitnessShort ==
    /\ pout.which = "Header"
    /\ Len(pin.data) = 19
    /\ pout.result.kind = "AssertionError"

-----------------------------------------------------------------------------
(* SpecCtor: ThetaClient.__init__ (client.py lines 40-76) on bounded        *)
(* arguments, and the launch thread it starts.                              *)

\* The sentinel "default", as characters.
Default == <<"d", "e", "f", "a", "u", "l", "t">>

Passwords ==
    {Default, <<"p", "w">>, <<"p", "%">>, <<"?", "w">>, <<"p", " ", "w">>}

Usernames == {Default, <<"u">>}

\* str.__contains__ for a single character.
Contains(str, ch) == \E k \in 1..Len(str) : str[k] = ch

\* The password test of line 65.
IllegalPasswd_no_space(passwd) == Contains(passwd, "%") \/ Contains(passwd, "?")

IllegalPasswd(passwd) ==
    Contains(passwd, "%") \/ Contains(passwd, "?") \/ Contains(passwd, " ")

\* The arguments of one construction; java is whether the probe
\* os.system("java -version") answers 0, download_ok whether check_download
\* returns rather than raises.
InitCtor ==
    /\ NoClient
    /\ pin = [header |-> [kind |-> "none"], data |-> <<>>]
    /\ pout = [which |-> "none"]
    /\ \E launch \in BOOLEAN, java \in BOOLEAN, download_ok \in BOOLEAN,
          passwd \in Passwords, username \in Usernames,
          to \in {NoTimeout, 60} :
          ctor = [state |-> "args", launch |-> launch, java |-> java,
                  download_ok |-> download_ok, passwd |-> passwd,
                  username |-> username, timeout |-> to,
                  raised |-> "none", notices |-> <<>>, calls |-> <<>>,
                  thread |-> "none"]

\* __init__ with the launch thread started before check_download is called.
InitBody_launch_first(c) ==
    IF ~c.java
        THEN [c EXCEPT !.state = "returned", !.notices = <<"java required">>]
    ELSE IF ~c.launch
        THEN [c EXCEPT !.state = "returned", !.notices = <<"not launching">>]
    ELSE IF IllegalPasswd(c.passwd)
        THEN [c EXCEPT !.state = "raised", !.raised = "ConnectionError"]
    ELSE LET notices == IF c.username = Default \/ c.passwd = Default
                            THEN <<"free version">> ELSE <<>>
         IN  IF ~c.download_ok
                 THEN [c EXCEPT !.state = "raised", !.raised = "check_download",
                                !.notices = notices,
                                !.calls = <<"Thread.start", "check_download">>,
                                !.thread = "started"]
             ELSE [c EXCEPT !.state = "returned", !.notices = notices,
                            !.calls = <<"Thread.start", "check_download">>,
                            !.thread = "started"]

\* The body of __init__ from the probe on (lines 60-76): the fields of ctor
\* it changes.
InitBody(c) ==
    IF ~c.java
        THEN [c EXCEPT !.state = "returned", !.notices = <<"java required">>]
    ELSE IF ~c.launch
        THEN [c EXCEPT !.state = "returned", !.notices = <<"not launching">>]
    ELSE IF IllegalPasswd(c.passwd)
        THEN [c EXCEPT !.state = "raised", !.raised = "ConnectionError"]
    ELSE LET notices == IF c.username = Default \/ c.passwd = Default
                            THEN <<"free version">> ELSE <<>>
         IN  IF ~c.download_ok
                 THEN [c EXCEPT !.state = "raised", !.raised = "check_download",
                                !.notices = notices,
                                !.calls = <<"check_download">>]
             ELSE [c EXCEPT !.state = "returned", !.notices = notices,
                            !.calls = <<"check_download", "Thread.start">>,
                            !.thread = "started"]

\* ThetaClient.__init__
Construct ==
    /\ ctor.state = "args"
    /\ timeout' = ctor.timeout
    /\ _server' = 0
    /\ ctor' = InitBody(ctor)
    /\ UNCHANGED <<socks, conn, inbuf, terminal, lastOp, counts, pin, pout>>

\* The thread started at line 74 runs launch_terminal.
LaunchTerminal ==
    /\ ctor.thread = "started"
    /\ ctor' = [ctor EXCEPT !.thread = "ran",
                            !.calls = Append(@, "launch_terminal")]
    /\ UNCHANGED <<clientVars, pin, pout>>

NextCtor == Construct \/ LaunchTerminal

SpecCtor == InitCtor /\ [][NextCtor]_vars

-----------------------------------------------------------------------------
(* Properties of the constructor, checked under SpecCtor.                   *)

Constructed == ctor.state \in {"returned", "raised"}

HasIllegalChar ==
    Contains(ctor.passwd, "%") \/ Contains(ctor.passwd, "?")
        \/ Contains(ctor.passwd, " ")

\* C7 as stated: every construction with a password containing '%', '?' or a
\* space, for every launch flag and probe result, fails with the
\* configuration error and invokes neither check_download nor the launch.
C7_IllegalPasswdAlwaysFails ==
    (Constructed /\ HasIllegalChar)
        => (ctor.raised = "ConnectionError" /\ ctor.calls = <<>>)

\* C7 amended: a construction with a password containing '%', '?' or a space
\* fails with the configuration error when the launch flag is true and the
\* runtime probe succeeds (otherwise it returns without an error); in every
\* case it invokes neither check_download nor the launch.
C7_IllegalPasswdFailsWhenLaunching ==
    (Constructed /\ HasIllegalChar)
        => /\ ctor.calls = <<>>
           /\ ctor.thread = "none"
           /\ IF ctor.launch /\ ctor.java
                  THEN ctor.state = "raised" /\ ctor.raised = "ConnectionError"
              ELSE ctor.state = "returned"

\* A construction with a password containing a space that raised.
C7_Witness ==
    /\ Contains(ctor.passwd, " ")
    /\ ctor.state = "raised"
    /\ ctor.raised = "ConnectionError"

\* The number of calls of a name the construction has made.
Calls(name) == Cardinality({k \in 1..Len(ctor.calls) : ctor.calls[k] = name})

\* C16: the Terminal launch is started only after check_download has
\* returned, only when the launch flag is true, the probe succeeded and the
\* password is legal, and at most once; the constructor returns with the
\* launch started on its thread and not yet run; with the launch flag false
\* neither check_download nor the launch is invoked.
C16_LaunchAfterDownloadOnce ==
    /\ Calls("check_download") <= 1
    /\ Calls("Thread.start") <= 1
    /\ Calls("launch_terminal") <= 1
    /\ ctor.thread # "none" =>
           /\ ctor.launch /\ ctor.java /\ ~HasIllegalChar /\ ctor.download_ok
           /\ ctor.state = "returned"
           /\ SubSeq(ctor.calls, 1, 2) = <<"check_download", "Thread.start">>
    /\ Calls("Thread.start") = 1 <=> ctor.thread # "none"
    /\ Calls("launch_terminal") = 1 <=> ctor.thread = "ran"
    /\ (ctor.state = "raised" /\ ctor.raised = "check_download") =>
           ctor.calls = <<"check_download">>
    /\ ~ctor.launch => (ctor.calls = <<>> /\ ctor.thread = "none")

\* A construction that has returned with the launch started and not yet run.
C16_Witness ==
    /\ ctor.state = "returned"
    /\ ctor.thread = "started"
    /\ ctor.calls = <<"check_download", "Thread.start">>

\* The launch has run after the constructor returned.
C16_WitnessRan ==
    /\ ctor.state = "returned"
    /\ ctor.thread = "ran"

-----------------------------------------------------------------------------
(* Spec: the constructed client against the Terminal.                       *)
(*                                                                          *)
(* The Terminal and the sockets are the environment.  A connection attempt  *)
(* is accepted, refused (a ConnectionError) or fails with another OSError   *)
(* (a timeout).  The Terminal answers every complete request line with one  *)
(* response of Responses; a response may arrive only after the client's     *)
(* receive has timed out, and one receive of an operation may answer fewer  *)
(* bytes than are there.                                                    *)

MAX_PART_SIZE == 512

DataOps == {"get_hist_option", "get_expirations", "get_strikes", "get_roots",
            "get_last_option", "get_req"}

\* Which socket call transmits the request and which decoder reads the body
\* (client.py lines 174/182, 197/199, 215/217, 238/240, 272/276, 289/297).
Sender(op) ==
    IF op \in {"get_expirations", "get_strikes", "get_roots"}
        THEN "send" ELSE "sendall"

BodyDecoder(op) ==
    IF op \in {"get_expirations", "get_strikes", "get_roots"}
        THEN "ListBody" ELSE "TickBody"

\* The request line of each operation, in the pieces a partial send may
\* split it at.  <NAME> stands for the value of MessageType.NAME, <x> for
\* the formatted argument x.
RequestLine(op) ==
    CASE op = "get_hist_option" ->
             <<"MSG_CODE=<HIST>",
               "&START_DATE=<start>&END_DATE=<end>&root=<root>&exp=<exp>&strike=<strike>&right=<right>&sec=OPTION&req=<req>&IVL=<ivl>",
               "\n">>
      [] op = "get_expirations" ->
             <<"MSG_CODE=<ALL_EXPIRATIONS>", "&root=<root>", "\n">>
      [] op = "get_strikes" ->
             <<"MSG_CODE=<ALL_STRIKES>", "&root=<root>&exp=<exp>", "\n">>
      [] op = "get_roots" ->
             <<"MSG_CODE=<ALL_ROOTS>", "&sec=<sec>", "\n">>
      [] op = "get_last_option" ->
             <<"MSG_CODE=<LAST>",
               "&root=<root>&exp=<exp>&strike=<strike>&right=<right>&sec=OPTION&req=<req>",
               "\n">>
      [] op = "get_req" -> <<"<req>", "\n">>
      [] op = "kill" -> <<"MSG_CODE=<KILL>", "\n">>

\* The MessageType member each operation names for its MSG_CODE (lines 136,
\* 173, 196, 214, 237, 271); get_req sends its argument as it is.
MessageCodeOf(op) ==
    CASE op = "get_hist_option" -> <<"HIST">>
      [] op = "get_expirations" -> <<"ALL_EXPIRATIONS">>
      [] op = "get_strikes" -> <<"ALL_STRIKES">>
      [] op = "get_roots" -> <<"ALL_ROOTS">>
      [] op = "get_last_option" -> <<"LAST">>
      [] op = "kill" -> <<"KILL">>
      [] OTHER -> <<>>

\* A response as the Terminal writes it: the 20-byte header (id 1, latency,
\* error and the reserved byte 0) and the body.
MkResponse(code, format_len, body) ==
    <<code \div 256, code % 256>> \o <<0, 0, 0, 0, 0, 0, 0, 1>> \o <<0, 0>>
        \o <<0, 0>> \o <<0>> \o <<format_len>> \o Word(Len(body)) \o body

\* The Terminal's answers: a tick table [PRICE_TYPE, BID] with the row
\* [10, 5]; the error "no"; the list "1,2"; a header of the unknown message
\* type 999 with a one-byte body; a tick table [DATE] without rows.
Responses == {
    MkResponse(200, 2, Word(4) \o Word(103) \o Word(10) \o Word(5)),
    MkResponse(101, 0, <<110, 111>>),
    MkResponse(205, 0, <<49, 44, 50>>),
    MkResponse(999, 0, <<0>>),
    MkResponse(200, 1, Word(0)) }

\* How the socket splits what it delivers: every receive answers all it has,
\* up to the size asked, except that receive number call of the operation
\* (0 is the header's) answers one byte, or all but one.
NoPlan == [call |-> 0 - 1, mode |-> "none"]

Plans ==
    {NoPlan, [call |-> 0, mode |-> "one"], [call |-> 1, mode |-> "allButOne"]}

\* The number of bytes socket.recv(req) answers with avail > 0 bytes there.
RecvCount(plan, callNo, req, avail) ==
    LET m == Min(req, avail)
    IN  IF plan.call = callNo /\ m >= 2
            THEN (IF plan.mode = "one" THEN 1 ELSE m - 1)
        ELSE m

\* bytearray(n_bytes), held as the bytes written so far and the count of
\* zero bytes after them.
NewBuffer(n_bytes) == [pre |-> <<>>, zeros |-> n_bytes]

BufferBytes(buffer) == buffer.pre \o Zeros(buffer.zeros)

\* buffer[lo:hi] = part, with Python's clamping of the slice and the change
\* of length when part is shorter than the slice.
SliceAssign(buffer, lo0, hi0, part) ==
    LET len  == Len(buffer.pre) + buffer.zeros
        lo   == Min(lo0, len)
        hi   == Max(lo, Min(hi0, len))
        head == IF lo <= Len(buffer.pre) THEN SubSeq(buffer.pre, 1, lo)
                ELSE buffer.pre \o Zeros(lo - Len(buffer.pre))
        rest == IF hi < Len(buffer.pre)
                    THEN SubSeq(buffer.pre, hi + 1, Len(buffer.pre))
                ELSE <<>>
    IN  [pre |-> head \o part \o rest,
         zeros |-> len - Max(hi, Len(buffer.pre))]

\* What a receive on an empty stream does: it raises when a timeout is set,
\* and never returns when none is.
EmptyRecv == IF timeout = NoTimeout THEN "blocked" ELSE "TimeoutError"

\* The loop of _recv (lines 118-125) from offset i on: stream is what the
\* socket can deliver, log the size asked and answered of each receive.
RECURSIVE RecvLoop(_, _, _, _, _, _, _, _)

\* The loop counting the bytes received instead of the bytes asked for.
RecvLoop_counts_received(n_bytes, i, bytes_downloaded, buffer, stream, plan, callNo, log) ==
    IF i >= n_bytes
        THEN [kind |-> "ok", buffer |-> buffer, stream |-> stream,
              log |-> log, bytes_downloaded |-> bytes_downloaded]
    ELSE LET part_size == Min(MAX_PART_SIZE, n_bytes - bytes_downloaded)
         IN  IF stream = <<>>
                 THEN [kind |-> EmptyRecv, stream |-> stream,
                       log |-> Append(log, <<part_size, 0>>)]
             ELSE LET got  == RecvCount(plan, callNo, part_size, Len(stream))
                      part == SubSeq(stream, 1, got)
                  IN  RecvLoop(n_bytes, i + MAX_PART_SIZE,
                               bytes_downloaded + got,
                               SliceAssign(buffer, i, i + part_size, part),
                               SubSeq(stream, got + 1, Len(stream)),
                               plan, callNo + 1,
                               Append(log, <<part_size, got>>))

RecvLoop(n_bytes, i, bytes_downloaded, buffer, stream, plan, callNo, log) ==
    IF i >= n_bytes
        THEN [kind |-> "ok", buffer |-> buffer, stream |-> stream,
              log |-> log, bytes_downloaded |-> bytes_downloaded]
    ELSE LET part_size == Min(MAX_PART_SIZE, n_bytes - bytes_downloaded)
         IN  IF stream = <<>>
                 THEN [kind |-> EmptyRecv, stream |-> stream,
                       log |-> Append(log, <<part_size, 0>>)]
             ELSE LET got  == RecvCount(plan, callNo, part_size, Len(stream))
                      part == SubSeq(stream, 1, got)
                  IN  RecvLoop(n_bytes, i + MAX_PART_SIZE,
                               bytes_downloaded + part_size,
                               SliceAssign(buffer, i, i + part_size, part),
                               SubSeq(stream, got + 1, Len(stream)),
                               plan, callNo + 1,
                               Append(log, <<part_size, got>>))

\* ThetaClient._recv(n_bytes) with _server set; callNo numbers its first
\* receive within the operation.
_recv(n_bytes, stream, plan, callNo, log) ==
    LET r == RecvLoop(n_bytes, 0, 0, NewBuffer(n_bytes), stream, plan,
                      callNo, log)
    IN  IF r.kind # "ok" THEN r
        ELSE IF r.bytes_downloaded # n_bytes
            THEN [kind |-> "AssertionError", stream |-> r.stream,
                  log |-> r.log]
        ELSE [kind |-> "ok", buffer |-> BufferBytes(r.buffer),
              stream |-> r.stream, log |-> r.log]

\* Decimal(token) for the tokens the model's bodies hold: the value of a
\* token of decimal digits, and the InvalidOperation of an empty token and
\* of one holding a letter, a NUL or another control byte.
RECURSIVE DigitsValue(_, _)
DigitsValue(token, acc) ==
    IF token = <<>> THEN acc
    ELSE DigitsValue(Tail(token), acc * 10 + (Head(token) - 48))

DecimalOf(token) ==
    IF token = <<>> \/ \E k \in 1..Len(token) : token[k] < 48 \/ token[k] > 57
        THEN [ok |-> FALSE]
    ELSE [ok |-> TRUE, value |-> DigitsValue(token, 0)]

\* The loop of get_strikes (lines 218-226): Decimal(i) / 1000 per token, as
\* the fraction num/den.
RECURSIVE Strikes(_, _)
Strikes(lst, acc) ==
    IF lst = <<>> THEN [kind |-> "Series", values |-> acc]
    ELSE LET d == DecimalOf(Head(lst))
         IN  IF ~d.ok THEN [kind |-> "InvalidOperation"]
             ELSE Strikes(Tail(lst),
                          Append(acc, [num |-> d.value, den |-> 1000]))

\* What the operation returns from its decoded body.
Returned(op, body) ==
    IF op = "get_strikes" /\ body.kind = "ListBody"
        THEN Strikes(body.lst, <<>>)
    ELSE body

\* _server as the operations find it.
ServerState ==
    IF _server = 0 THEN "None"
    ELSE IF socks[_server].closed THEN "closed"
    ELSE IF socks[_server].connected THEN "open"
    ELSE "unconnected"

\* The record of an operation that has not yet touched the socket.
OpRecord(op) == [NoOp EXCEPT !.op = op, !.server = ServerState]

\* The response half with a second receive of the header after an empty one.
Receive_retry_header(op, avail, plan) ==
    [decoded |-> "none", header_data |-> <<>>, header |-> [kind |-> "none"],
     body_data |-> <<>>, rest |-> avail,
     recvs |-> << <<20, 0>>, <<20, Min(20, Len(avail))>> >>,
     result |-> [kind |-> EmptyRecv]]

\* The response half of an operation (lines 176-183 and their like): the
\* header's receive and decode, _recv of the body, the body's decode.  avail
\* is what the socket can deliver while the operation runs.
Receive(op, avail, plan) ==
    IF avail = <<>>
        THEN [decoded |-> "none", header_data |-> <<>>,
              header |-> [kind |-> "none"], body_data |-> <<>>,
              rest |-> avail, recvs |-> << <<20, 0>> >>,
              result |-> [kind |-> EmptyRecv]]
    ELSE
    LET got         == RecvCount(plan, 0, 20, Len(avail))
        header_data == SubSeq(avail, 1, got)
        afterHeader == SubSeq(avail, got + 1, Len(avail))
        header      == Header_parse(header_data)
    IN  IF header.kind # "Header"
            THEN [decoded |-> "header", header_data |-> header_data,
                  header |-> header, body_data |-> <<>>,
                  rest |-> afterHeader, recvs |-> << <<20, got>> >>,
                  result |-> header]
        ELSE
        LET b == _recv(header.size, afterHeader, plan, 1, << <<20, got>> >>)
        IN  IF b.kind # "ok"
                THEN [decoded |-> "header", header_data |-> header_data,
                      header |-> header, body_data |-> <<>>,
                      rest |-> b.stream, recvs |-> b.log,
                      result |-> [kind |-> b.kind]]
            ELSE [decoded |-> "body", header_data |-> header_data,
                  header |-> header, body_data |-> b.buffer,
                  rest |-> b.stream, recvs |-> b.log,
                  result |-> Returned(op,
                      IF BodyDecoder(op) = "TickBody"
                          THEN TickBody_parse(header, b.buffer)
                      ELSE ListBody_parse(header, b.buffer))]

\* One data-retrieval operation, whole: the precondition, the request, the
\* response.  resp is the Terminal's answer should the line reach it, late
\* whether it arrives only after the receive has timed out, partial whether
\* socket.send accepts only the first piece of the line.
RunOp(op, resp, late, partial, plan) ==
    LET base == OpRecord(op)
        line == RequestLine(op)
    IN  IF base.server = "None"
            THEN [lastOp |-> [base EXCEPT !.precond = FALSE,
                                          !.result = [kind |-> "AssertionError"]],
                  inbuf |-> inbuf, terminal |-> terminal]
        ELSE IF base.server # "open"
            THEN [lastOp |-> [base EXCEPT !.sendCalls = 1,
                                          !.result = [kind |-> "OSError"]],
                  inbuf |-> inbuf, terminal |-> terminal]
        ELSE
        LET sent     == IF Sender(op) = "send" /\ partial
                            THEN SubSeq(line, 1, 1) ELSE line
            complete == sent[Len(sent)] = "\n"
            response == IF complete /\ terminal.alive THEN resp ELSE <<>>
            delayed  == late /\ timeout # NoTimeout
            avail    == inbuf \o (IF delayed THEN <<>> ELSE response)
            rc       == Receive(op, avail, plan)
        IN  [lastOp |-> [base EXCEPT !.sendCalls = 1, !.sent = sent,
                                     !.unreadAtSend = Len(inbuf),
                                     !.response = response,
                                     !.recvs = rc.recvs,
                                     !.decoded = rc.decoded,
                                     !.header_data = rc.header_data,
                                     !.header = rc.header,
                                     !.body_data = rc.body_data,
                                     !.result = rc.result],
             inbuf |-> rc.rest \o (IF delayed THEN response ELSE <<>>),
             terminal |-> [terminal EXCEPT
                              !.line = IF complete THEN <<>>
                                       ELSE terminal.line \o sent]]

\* ThetaClient.kill (lines 130-137): no precondition; sendall on _server.
RunKill ==
    LET base == OpRecord("kill")
    IN  IF base.server = "None"
            THEN [lastOp |-> [base EXCEPT !.result = [kind |-> "AttributeError"]],
                  terminal |-> terminal]
        ELSE IF base.server # "open"
            THEN [lastOp |-> [base EXCEPT !.sendCalls = 1,
                                          !.result = [kind |-> "OSError"]],
                  terminal |-> terminal]
        ELSE [lastOp |-> [base EXCEPT !.sendCalls = 1,
                                      !.sent = RequestLine("kill"),
                                      !.unreadAtSend = Len(inbuf),
                                      !.result = [kind |-> "returned"]],
              terminal |-> [line |-> <<>>, alive |-> FALSE]]

\* range(15) of line 87 and the index tested at line 94.
ATTEMPTS == 15

LAST_INDEX == 14

\* socket.socket(): unconnected, open, blocking; atConnect is the timeout in
\* effect when connect was called on it.
NewSocket ==
    [connected |-> FALSE, closed |-> FALSE, timeout |-> NoTimeout,
     atConnect |-> NoTimeout]

\* self._server.close() (line 101)
CloseServer_noop(ss, srv) == ss

CloseServer(ss, srv) == [ss EXCEPT ![srv].closed = TRUE]

\* The test of line 94: the refusal that ends the retries.
GivesUp_one_early(i) == i = LAST_INDEX - 1

GivesUp(i) == i = LAST_INDEX

\* The client's thread is not stuck in a receive without timeout.
Running == lastOp.result.kind # "blocked"

Init ==
    /\ ctor = [state |-> "constructed"]
    /\ timeout \in {NoTimeout, 60}
    /\ _server = 0
    /\ socks = <<>>
    /\ conn = [pc |-> "idle", i |-> 0, attempts |-> 0, refused |-> 0,
               result |-> "none", exit |-> "none"]
    /\ inbuf = <<>>
    /\ terminal = [line |-> <<>>, alive |-> TRUE]
    /\ lastOp = NoOp
    /\ counts = [connects |-> 0, opsLeft |-> MaxOps]
    /\ pin = [header |-> [kind |-> "none"], data |-> <<>>]
    /\ pout = [which |-> "none"]

\* The caller enters "with client.connect():": the generator starts
\* (lines 86-87).  The sockets of earlier invocations that _server no longer
\* names are out of the program's reach, and the model forgets them.
Connect ==
    /\ Running
    /\ conn.pc = "idle"
    /\ counts.connects < MaxConnects
    /\ conn' = [pc |-> "connecting", i |-> 0, attempts |-> 0, refused |-> 0,
                result |-> "none", exit |-> "none"]
    /\ socks' = IF _server = 0 THEN <<>> ELSE <<socks[_server]>>
    /\ _server' = IF _server = 0 THEN 0 ELSE 1
    /\ lastOp' = NoOp
    /\ counts' = [counts EXCEPT !.connects = @ + 1]
    /\ UNCHANGED <<ctor, timeout, inbuf, terminal, pin, pout>>

\* One accepted attempt (lines 89-92, 98-99): the socket is connected, its
\* timeout set to 1 and then to self.timeout, and the generator yields.
Accepted ==
    /\ socks' = Append(socks, [NewSocket EXCEPT !.connected = TRUE,
                                                !.timeout = timeout])
    /\ conn' = [conn EXCEPT !.pc = "yielded", !.attempts = @ + 1,
                            !.result = "yielded"]
    /\ inbuf' = <<>>
    /\ terminal' = [terminal EXCEPT !.line = <<>>]

\* One refused attempt (lines 89-90, 93-97): at the last index the
\* ConnectionError is raised and the finally clause closes the socket;
\* before it the loop sleeps and goes on.  A loop that ran out without a
\* break would go on to lines 98-99 with the unconnected socket.
Refused ==
    /\ inbuf' = inbuf
    /\ terminal' = terminal
    /\ IF GivesUp(conn.i)
           THEN /\ socks' = CloseServer(Append(socks, NewSocket),
                                        Len(socks) + 1)
                /\ conn' = [conn EXCEPT !.pc = "idle", !.attempts = @ + 1,
                                        !.refused = @ + 1,
                                        !.result = "ConnectionError"]
       ELSE IF conn.i + 1 < ATTEMPTS
           THEN /\ socks' = Append(socks, NewSocket)
                /\ conn' = [conn EXCEPT !.i = @ + 1, !.attempts = @ + 1,
                                        !.refused = @ + 1]
       ELSE /\ socks' = Append(socks, [NewSocket EXCEPT !.timeout = timeout])
            /\ conn' = [conn EXCEPT !.pc = "yielded", !.attempts = @ + 1,
                                    !.refused = @ + 1, !.result = "yielded"]

\* An attempt that fails with an OSError that is no ConnectionError (a
\* timeout): the except clause does not match, the error leaves connect
\* and the finally clause closes the socket.
TimedOut ==
    /\ socks' = CloseServer(Append(socks, NewSocket), Len(socks) + 1)
    /\ conn' = [conn EXCEPT !.pc = "idle", !.attempts = @ + 1,
                            !.result = "TimeoutError"]
    /\ inbuf' = inbuf
    /\ terminal' = terminal

\* One pass of the retry loop of connect (lines 87-97).
ConnectAttempt ==
    /\ conn.pc = "connecting"
    /\ _server' = Len(socks) + 1
    /\ (Accepted \/ Refused \/ TimedOut)
    /\ UNCHANGED <<ctor, timeout, lastOp, counts, pin, pout>>

\* The caller's block ends, by running off its end or by an exception: the
\* generator resumes at the yield and the finally clause runs (line 101).
ScopeExit ==
    /\ Running
    /\ conn.pc = "yielded"
    /\ \E how \in {"return", "exception"} :
          conn' = [conn EXCEPT !.pc = "idle", !.exit = how]
    /\ socks' = CloseServer(socks, _server)
    /\ inbuf' = <<>>
    /\ lastOp' = NoOp
    /\ UNCHANGED <<ctor, timeout, _server, terminal, counts, pin, pout>>

\* The environment's choices that bear on an operation in the state it is
\* called in: whether send is partial, the Terminal's answer to a complete
\* line, whether the answer is late, how the socket splits what it delivers.
Partials(op) ==
    IF ServerState = "open" /\ Sender(op) = "send" THEN BOOLEAN ELSE {FALSE}

Answers(partial) ==
    IF ServerState = "open" /\ terminal.alive /\ ~partial
        THEN Responses ELSE {<<>>}

Delays(resp) ==
    IF resp # <<>> /\ timeout # NoTimeout THEN BOOLEAN ELSE {FALSE}

Splits(resp, late) ==
    IF ServerState = "open" /\ (inbuf # <<>> \/ (resp # <<>> /\ ~late))
        THEN Plans ELSE {NoPlan}

\* A data-retrieval operation, called before, inside or after a connect
\* scope.
DataOperation(op) ==
    /\ Running
    /\ conn.pc \in {"idle", "yielded"}
    /\ counts.opsLeft > 0
    /\ \E partial \in Partials(op) :
       \E resp \in Answers(partial) :
       \E late \in Delays(resp) :
       \E plan \in Splits(resp, late) :
          LET r == RunOp(op, resp, late, partial, plan)
          IN  /\ lastOp' = r.lastOp
              /\ inbuf' = r.inbuf
              /\ terminal' = r.terminal
    /\ counts' = [counts EXCEPT !.opsLeft = @ - 1]
    /\ UNCHANGED <<ctor, timeout, _server, socks, conn, pin, pout>>

get_hist_option == DataOperation("get_hist_option")

get_expirations == DataOperation("get_expirations")

get_strikes == DataOperation("get_strikes")

get_roots == DataOperation("get_roots")

get_last_option == DataOperation("get_last_option")

get_req == DataOperation("get_req")

\* ThetaClient.kill
kill ==
    /\ Running
    /\ conn.pc \in {"idle", "yielded"}
    /\ counts.opsLeft > 0
    /\ lastOp' = RunKill.lastOp
    /\ terminal' = RunKill.terminal
    /\ counts' = [counts EXCEPT !.opsLeft = @ - 1]
    /\ UNCHANGED <<ctor, timeout, _server, socks, conn, inbuf, pin, pout>>

Next ==
    \/ Connect
    \/ ConnectAttempt
    \/ ScopeExit
    \/ get_hist_option
    \/ get_expirations
    \/ get_strikes
    \/ get_roots
    \/ get_last_option
    \/ get_req
    \/ kill

Spec == Init /\ [][Next]_vars

\* SpecSession: the operations on one connection, from the state connect
\* yields in when its first attempt is accepted.
InitSession ==
    /\ ctor = [state |-> "constructed"]
    /\ timeout \in {NoTimeout, 60}
    /\ _server = 1
    /\ socks = <<[NewSocket EXCEPT !.connected = TRUE, !.timeout = timeout]>>
    /\ conn = [pc |-> "yielded", i |-> 0, attempts |-> 1, refused |-> 0,
               result |-> "yielded", exit |-> "none"]
    /\ inbuf = <<>>
    /\ terminal = [line |-> <<>>, alive |-> TRUE]
    /\ lastOp = NoOp
    /\ counts = [connects |-> 1, opsLeft |-> MaxSessionOps]
    /\ pin = [header |-> [kind |-> "none"], data |-> <<>>]
    /\ pout = [which |-> "none"]

NextSession ==
    \/ ScopeExit
    \/ get_hist_option
    \/ get_expirations
    \/ get_strikes
    \/ get_roots
    \/ get_last_option
    \/ get_req
    \/ kill

SpecSession == InitSession /\ [][NextSession]_vars

-----------------------------------------------------------------------------
(* SpecRecv: _recv(n_bytes) on a connected client, for bodies of up to      *)
(* MaxParts parts and one byte, against a socket that holds fewer, as many  *)
(* or more bytes than asked and may answer one receive short.               *)

\* The sizes asked of _recv: 0, 1 and the sizes around each multiple of
\* MAX_PART_SIZE.
RecvSizes ==
    {0, 1} \cup {k * MAX_PART_SIZE + d : k \in 1..MaxParts, d \in {0 - 1, 0, 1}}

\* How many bytes the socket holds when _recv(n) is called.
StreamLens(n) ==
    {0, Max(n - 1, 0), n, n + 1}
        \cup {k * MAX_PART_SIZE : k \in 1..(n \div MAX_PART_SIZE)}

\* The socket's short answers: none, or one receive of the call.
RecvPlans ==
    {NoPlan} \cup [call : 1..(MaxParts + 1), mode : {"one", "allButOne"}]

InitRecv ==
    /\ ctor = [state |-> "constructed"]
    /\ timeout \in {NoTimeout, 60}
    /\ _server = 1
    /\ socks = <<[NewSocket EXCEPT !.connected = TRUE, !.timeout = timeout]>>
    /\ conn = [pc |-> "yielded", i |-> 0, attempts |-> 1, refused |-> 0,
               result |-> "yielded", exit |-> "none"]
    /\ terminal = [line |-> <<>>, alive |-> TRUE]
    /\ lastOp = NoOp
    /\ counts = [connects |-> 1, opsLeft |-> 0]
    /\ \E n \in RecvSizes :
       \E len \in StreamLens(n) :
       \E plan \in RecvPlans :
          /\ inbuf = [k \in 1..len |-> k % 256]
          /\ pin = [n_bytes |-> n, plan |-> plan, stream |-> inbuf]
    /\ pout = [which |-> "none"]

\* self._recv(n_bytes) with _server set (lines 103-128).
RecvBody ==
    /\ pout.which = "none"
    /\ _server # 0
    /\ LET r == _recv(pin.n_bytes, inbuf, pin.plan, 1, <<>>)
       IN  /\ pout' = [which |-> "_recv", result |-> r]
           /\ inbuf' = r.stream
    /\ UNCHANGED <<pin, ctor, timeout, _server, socks, conn, terminal, lastOp,
                   counts>>

NextRecv == RecvBody

SpecRecv == InitRecv /\ [][NextRecv]_vars

\* The receives one run of _recv(n) can make: one per started part.
PartsOf(n) == (n + MAX_PART_SIZE - 1) \div MAX_PART_SIZE

\* The sum of the sizes asked in the first k receives of a log.
RECURSIVE Asked(_, _)
Asked(log, k) == IF k = 0 THEN 0 ELSE Asked(log, k - 1) + log[k][1]

\* C23: _recv(n) asks for Min(512, n - 512 (k - 1)) bytes in its k-th
\* receive, between 1 and 512; it never raises its closing AssertionError;
\* when it returns it has made exactly ceil(n / 512) receives whose sizes
\* sum to n, whatever the socket answered; a run a receive cut short has
\* made at most as many and asked for no more than n bytes.
C23_RecvAsksExactlyNBytes ==
    pout.which = "_recv" =>
        LET log == pout.result.log
            n   == pin.n_bytes
        IN  /\ pout.result.kind # "AssertionError"
            /\ \A k \in 1..Len(log) :
                  /\ log[k][1] \in 1..MAX_PART_SIZE
                  /\ log[k][1] = Min(MAX_PART_SIZE,
                                     n - MAX_PART_SIZE * (k - 1))
            /\ Len(log) <= PartsOf(n)
            /\ Asked(log, Len(log)) <= n
            /\ pout.result.kind = "ok" =>
                  /\ Len(log) = PartsOf(n)
                  /\ Asked(log, Len(log)) = n
            /\ pout.result.kind # "ok" =>
                  /\ pout.result.kind = EmptyRecv
                  /\ log[Len(log)][2] = 0

\* _recv returned a body of several parts although one receive was short.
C23_Witness ==
    /\ pout.which = "_recv"
    /\ pout.result.kind = "ok"
    /\ pin.n_bytes = MAX_PART_SIZE + 1
    /\ Len(pout.result.log) = 2
    /\ pout.result.log[1][2] < pout.result.log[1][1]

\* _recv(0) returned without a receive.
C23_WitnessZero ==
    /\ pout.which = "_recv"
    /\ pin.n_bytes = 0
    /\ pout.result.kind = "ok"
    /\ pout.result.log = <<>>

-----------------------------------------------------------------------------
(* SpecList: ListBody.parse, and the loop of get_strikes over its list,     *)
(* applied to text bodies of up to MaxText bytes.                           *)

\* The bytes of a text body: the digits 0 and 1, the comma, the letter a.
TextBytes == {48, 49, 44, 97}

InitList ==
    /\ NoClient
    /\ ctor = [state |-> "none"]
    /\ \E n \in 0..MaxText :
       \E data \in [1..n -> TextBytes] :
       \E mt \in {"ALL_STRIKES", "ERROR"} :
       \E extra \in 0..1 :
          pin = [header |-> [kind |-> "Header", message_type |-> mt,
                             id |-> 0, latency |-> 0, error |-> 0,
                             format_len |-> 0, size |-> Len(data) + extra],
                 data |-> data]
    /\ pout = [which |-> "none"]

\* Lines 217-226 of get_strikes: ListBody.parse and the loop over its list.
StrikesOfBody ==
    /\ pout.which = "none"
    /\ pout' = [which |-> "Strikes",
                result |-> Returned("get_strikes",
                                    ListBody_parse(pin.header, pin.data))]
    /\ UNCHANGED <<pin, ctor, clientVars>>

NextList == ParseListBody \/ StrikesOfBody

SpecList == InitList /\ [][NextList]_vars

\* The ends of the tokens of the body: the commas, and the positions before
\* the first byte and after the last.
TokenEnds == {k \in 1..Len(pin.data) : pin.data[k] = 44}
                 \cup {0, Len(pin.data) + 1}

\* The i-th end, counting from 0.
TokenEnd(i) ==
    CHOOSE p \in TokenEnds : Cardinality({q \in TokenEnds : q < p}) = i

\* The i-th token, counting from 1: the bytes between two ends.
Token(i) == SubSeq(pin.data, TokenEnd(i - 1) + 1, TokenEnd(i) - 1)

Commas == Cardinality(TokenEnds) - 2

IsIntegerToken(t) == t # <<>> /\ \A k \in 1..Len(t) : t[k] \in 48..57

\* The value of a token of digits, from its last digit on.
RECURSIVE TokenValue(_)
TokenValue(t) ==
    IF t = <<>> THEN 0
    ELSE (t[Len(t)] - 48) + 10 * TokenValue(SubSeq(t, 1, Len(t) - 1))

\* A non-ERROR header with an ASCII body of header.size bytes.
ListBodyInput ==
    /\ pin.header.message_type # "ERROR"
    /\ Len(pin.data) = pin.header.size
    /\ IsAscii(pin.data)

C15_WitnessEmptyToken ==
    /\ pout.which = "ListBody"
    /\ ListBodyInput
    /\ pin.data = <<49, 44, 44, 48>>
    /\ pout.result.kind = "ListBody"
    /\ Len(pout.result.lst) = 3

-----------------------------------------------------------------------------
(* Claims about connect and the operations.                                 *)

\* C1: one invocation of connect makes at most 15 attempts; while every
\* attempt so far was refused and fewer than 15 were made it goes on; it
\* yields exactly at its first attempt that is not refused, the k-th after
\* k - 1 refusals; and when all 15 are refused it ends in a ConnectionError
\* after exactly 15 attempts without having yielded.
C1_FifteenAttempts ==
    /\ conn.attempts <= 15
    /\ conn.pc = "connecting" =>
           conn.attempts = conn.refused /\ conn.refused < 15
    /\ conn.result = "yielded" =>
           /\ conn.attempts = conn.refused + 1
           /\ socks[_server].connected
    /\ conn.refused = 15 <=> conn.result = "ConnectionError"
    /\ conn.result = "ConnectionError" =>
           /\ conn.attempts = 15
           /\ conn.pc = "idle"
           /\ conn.exit = "none"

\* connect yielded at its 15th attempt, after 14 refusals.
C1_Witness ==
    /\ conn.result = "yielded"
    /\ conn.attempts = 15
    /\ conn.refused = 14

\* connect ended in a ConnectionError after 15 refusals.
C1_WitnessExhausted ==
    /\ conn.result = "ConnectionError"
    /\ conn.refused = 15

\* C2: whenever an invocation of connect has ended - the caller's block ran
\* off its end, an exception left the block, or the attempts ran out - the
\* socket _server names is closed.
C2_SocketClosedAtExit ==
    (conn.pc = "idle" /\ conn.result # "none") =>
        /\ _server # 0
        /\ socks[_server].closed

\* A connect scope left by an exception of the caller's block, its socket
\* closed.
C2_Witness ==
    /\ conn.pc = "idle"
    /\ conn.exit = "exception"
    /\ socks[_server].closed

\* A connect that ran out of attempts, its socket closed.
C2_WitnessExhausted ==
    /\ conn.pc = "idle"
    /\ conn.result = "ConnectionError"
    /\ socks[_server].closed

\* C3: whenever the not-connected precondition of a data-retrieval
\* operation passes, the client's socket is connected and not closed; an
\* operation called without an active connection sends nothing.
C3_PreconditionMeansConnected ==
    lastOp.op \in DataOps =>
        /\ lastOp.precond => lastOp.server = "open"
        /\ lastOp.server # "open" => lastOp.sendCalls = 0

\* C4: a data-retrieval operation that finds nothing unread on its socket
\* decodes the header from exactly the first 20 bytes of the response and
\* hands the body decoder exactly the header.size bytes after them, however
\* the socket splits the bytes across receives.
C4_DecodersGetExactBytes ==
    (/\ lastOp.op \in DataOps
     /\ lastOp.unreadAtSend = 0
     /\ lastOp.decoded # "none") =>
        /\ lastOp.header_data = SubSeq(lastOp.response, 1, 20)
        /\ lastOp.decoded = "body" =>
               lastOp.body_data =
                   SubSeq(lastOp.response, 21, 20 + lastOp.header.size)

\* C5: when the client sends a request on its connection, no byte of an
\* earlier response on that connection is unread.
C5_NothingUnreadAtSend ==
    (lastOp.op \in DataOps /\ lastOp.server = "open") =>
        lastOp.unreadAtSend = 0

\* C8: kill transmits the kill request line in every state of the client.
C8_KillAlwaysTransmits ==
    lastOp.op = "kill" =>
        /\ lastOp.sent = RequestLine("kill")
        /\ lastOp.result.kind = "returned"

\* C17: at every connection attempt the 1-second timeout is in effect on the
\* socket when connect is called on it, and once connect has yielded the
\* socket's timeout is self.timeout.
C17_OneSecondTimeoutAtConnect ==
    /\ \A k \in 1..Len(socks) : socks[k].atConnect = 1
    /\ conn.pc = "yielded" => socks[_server].timeout = timeout

\* C18: an attempt that times out counts like a refused one and is followed
\* by the next attempt; connect fails only after 15 failed attempts.
C18_TimeoutsAreRetried ==
    (conn.pc = "idle" /\ conn.result \in {"ConnectionError", "TimeoutError"})
        => conn.attempts = 15

\* C19: in every data-retrieval operation the whole request line, newline
\* included, has been handed to the socket before the response header is
\* read.
C19_WholeLineBeforeReading ==
    (lastOp.op \in DataOps /\ lastOp.recvs # <<>>) =>
        lastOp.sent = RequestLine(lastOp.op)

\* The names of the members of MessageType.
MessageTypeNames ==
    {MessageTypeMembers[k][1] : k \in 1..Len(MessageTypeMembers)}

\* C20: the message code of every request line the client sends is a member
\* of MessageType, and the codes of the members the operations name are
\* pairwise distinct.
C20_MessageCodesAreMembers ==
    lastOp.sent # <<>> =>
        /\ \A k \in 1..Len(MessageCodeOf(lastOp.op)) :
              MessageCodeOf(lastOp.op)[k] \in MessageTypeNames
        /\ \A i, j \in 1..Len(MessageTypeMembers) :
              MessageTypeMembers[i][2] = MessageTypeMembers[j][2] => i = j

\* The results with which an operation hands a failure to its caller.
FailureKinds ==
    {"AssertionError", "EnumParseError", "ResponseError", "UnicodeDecodeError",
     "ZeroDivisionError", "TimeoutError", "OSError", "InvalidOperation"}

\* C21: a data-retrieval operation calls send or sendall at most once; a
\* receive that timed out is the operation's last receive and its
\* TimeoutError is the operation's result; a header that fails to decode
\* ends the operation after the one receive, with that failure as result;
\* under a decoded header the operation makes no more than the body's
\* receives, and when that header says ERROR or the body's decoder fails the
\* failure is the result.
C21_FailuresPropagateWithoutRetry ==
    lastOp.op \in DataOps =>
        /\ lastOp.sendCalls <= 1
        /\ \A k \in 1..Len(lastOp.recvs) :
              lastOp.recvs[k][2] = 0 =>
                  /\ k = Len(lastOp.recvs)
                  /\ lastOp.result.kind = EmptyRecv
        /\ lastOp.decoded = "header" /\ lastOp.header.kind # "Header" =>
              /\ Len(lastOp.recvs) = 1
              /\ lastOp.result = lastOp.header
              /\ lastOp.result.kind \in FailureKinds
        /\ lastOp.header.kind = "Header" =>
              /\ Len(lastOp.recvs) <= 1 + PartsOf(lastOp.header.size)
              /\ lastOp.header.message_type = "ERROR"
                     => lastOp.result.kind \in FailureKinds
        /\ lastOp.decoded = "body" =>
              lastOp.result =
                  Returned(lastOp.op,
                           IF BodyDecoder(lastOp.op) = "TickBody"
                               THEN TickBody_parse(lastOp.header,
                                                   lastOp.body_data)
                           ELSE ListBody_parse(lastOp.header,
                                               lastOp.body_data))

\* The request was sent and the receive of the header timed out.
C21_Witness ==
    /\ lastOp.op \in DataOps
    /\ lastOp.sendCalls = 1
    /\ lastOp.sent = RequestLine(lastOp.op)
    /\ lastOp.recvs = << <<20, 0>> >>
    /\ lastOp.result.kind = "TimeoutError"

\* The Terminal's ERROR was read and handed to the caller.
C21_WitnessError ==
    /\ lastOp.op \in DataOps
    /\ lastOp.header.kind = "Header"
    /\ lastOp.header.message_type = "ERROR"
    /\ lastOp.result.kind = "ResponseError"

\* The header failed to decode.
C21_WitnessHeader ==
    /\ lastOp.op \in DataOps
    /\ lastOp.header.kind = "EnumParseError"
    /\ Len(lastOp.recvs) = 1

\* The sockets created and not closed by a call of close.
Unclosed == {k \in 1..Len(socks) : ~socks[k].closed}

\* C22: connect closes every socket it creates: at most one socket is
\* unclosed at any point, and none is once the scope has been left, after a
\* success on any attempt or after the last refusal.
C22_ConnectClosesItsSockets ==
    /\ Cardinality(Unclosed) <= 1
    /\ conn.pc = "idle" => Unclosed = {}

====
